---- MODULE Spec2Model ----
(***************************************************************************)
(* Disposable-mailbox service: the address store (temp_emails), the        *)
(* public address-creation route (routes/emails.js) and the inbound-mail   *)
(* webhook (routes/webhook.js and its other revisions) over a MySQL store  *)
(* whose schema is the one of db/init.js initializeTables.                 *)
(*                                                                         *)
(* It also covers the start of the process (initializeDatabase), the pool  *)
(* of connections, the health check, the rate limiter of index.js and the  *)
(* scheduled retention sweep (utils/cleanup.js).                           *)
(*                                                                         *)
(* Time is counted in days: one Tick is 24 hours.  Every await of a        *)
(* handler is a scheduling point, so a handler is a sequence of atomic     *)
(* steps, one per query, interleaved with the steps of other requests.     *)
(***************************************************************************)
EXTENDS Integers, Sequences, FiniteSets, TLC

\* ---------------------------------------------------------------- bounds
\* last day the clock reaches
MaxTime == 3
\* most attachments one webhook payload carries
MaxAtts == 2
\* most calls to the database that fail in one run
MaxFaults == 5
\* the process clock advances by steps of this many milliseconds, up to MaxClock
StepMs == 500
MaxClock == 2000
\* highest count the rate limiter is driven to for one IP
MaxCount == 12

\* ------------------------------------------------------ program constants
\* emails.js:93  expiresAt.setHours(expiresAt.getHours() + 48): 48 h = 2 days
PublicTtlDays == 2
\* cleanup.js:10  DATE_SUB(NOW(), INTERVAL 3 DAY)
RetentionDays == 3
\* init.js:33  let retries = 5
Retries == 5
\* init.js:21  connectionLimit: 10
ConnectionLimit == 10
\* index.js:65  if (timeDiff < 1000)
WindowMs == 1000
\* index.js:67  if (rateLimit[ip].count > 10)
MaxPerWindow == 10

VARIABLES
  now,               \* the clock (NOW() of the store and Date.now() of the process), in days
  ownerNotNull,      \* whether temp_emails.user_id is enforced NOT NULL (table created by initializeTables)
  temp_emails,       \* committed rows of temp_emails
  received_emails,   \* committed rows of received_emails
  email_attachments, \* committed rows of email_attachments
  create,            \* the POST /public/create requests
  rev,               \* which revision of the webhook route is deployed
  hook,              \* the POST /webhook/email/incoming requests
  served,            \* how many webhook requests have been answered
  authIn,            \* a request's signature material: its headers and its body's signature object
  authOut,           \* what the deployed revision's signature check made of authIn
  observed,          \* history: what the read routes have returned so far
  deleted,           \* history: the address rows deleted so far
  ingestions,        \* history: the webhook requests answered so far
  reqIn,             \* a webhook payload
  reqOut,            \* what the deployed revision makes of reqIn before its first query
  mimeIn,            \* a raw MIME body (req.body.body)
  mimeOut,           \* what the parser and the handler's classification make of mimeIn
  sweep,             \* the retention sweep: idle, or between its two queries
  client,            \* who sends the read requests: nobody signed in (NoOwner) or a user
  faults,            \* how many more calls to the database fail (a lost connection, a refused statement)
  checkedOut,        \* connections of the pool that are checked out
  boot,              \* initializeDatabase and what index.js makes of its result
  health,            \* the GET /health request
  register,          \* the POST /auth/register request
  rateLimit,         \* index.js rateLimit: per IP, the count and the timestamp of its window
  clock,             \* Date.now() of the process, in milliseconds
  answered,          \* history: what the rate limiter did with the latest request
  passed             \* history: per IP, the requests passed on since its window started

storeVars == <<temp_emails, received_emails, email_attachments>>
hookVars == <<rev, hook, served, observed, ingestions>>
authVars == <<authIn, authOut>>
callVars == <<reqIn, reqOut, mimeIn, mimeOut>>
appVars == <<now, ownerNotNull, storeVars, create, hookVars, authVars, deleted, callVars, sweep>>
limitVars == <<rateLimit, clock, answered, passed>>
poolVars == <<faults, checkedOut>>
serverVars == <<client, boot, health, register, limitVars>>
vars == <<now, ownerNotNull, temp_emails, received_emails, email_attachments,
          create, rev, hook, served, authIn, authOut, observed, deleted, ingestions,
          reqIn, reqOut, mimeIn, mimeOut, sweep, client, faults, checkedOut, boot,
          health, register, rateLimit, clock, answered, passed>>

\* ---------------------------------------------------------------- values
\* Strings are sequences of one-character strings.
EmailA == <<"a">>
EmailB == <<"b">>
Emails == {EmailA, EmailB}
\* JavaScript's undefined, kept apart from every string
Undefined == <<"undefined">>
\* SQL NULL in temp_emails.user_id
NoOwner == "NULL"
\* rows of the domains table (routes/domains.js never deletes one)
Domains == {"d1"}
\* domainId as a caller may send it: an existing domain or an unknown one
DomainInputs == {"d1", "dx"}
\* "no row": createdEmail[0] of an empty result, or no response body yet
NoRow == [id |-> <<"none", 0>>, user_id |-> NoOwner, email |-> Undefined,
          domain_id |-> "none", expires_at |-> 0, created_at |-> 0]
\* the placeholder answered to bots at time t: id 'demo-id', email 'demo@boomlify.com',
\* expires_at 48 hours ahead
DemoRow(t) == [id |-> <<"demo-id", 0>>, user_id |-> NoOwner, email |-> <<"demo">>,
               domain_id |-> "none", expires_at |-> t + 2, created_at |-> t]

Creates == {1, 2}

\* ------------------------------------------------------------- the store
\* the lookup without its expiry condition
LiveRows_AnyExpiry(email) == {r \in temp_emails : r.email = email}
\* WHERE email = ? AND expires_at > NOW()
LiveRows(email) == {r \in temp_emails : r.email = email /\ r.expires_at > now}
\* WHERE email = ?
RowsByEmail(email) == {r \in temp_emails : r.email = email}
\* WHERE id = ?
RowsById(id) == {r \in temp_emails : r.id = id}
\* a result set's first row (the store holds at most one row per id and per email)
FirstRow(rows) == IF rows = {} THEN NoRow ELSE CHOOSE r \in rows : TRUE

\* mutant of DupEntry: uniqueness enforced among live rows only
DupEntry_LiveOnly(id, email) == LiveRows(email) # {} \/ RowsById(id) # {}

\* the UNIQUE index on temp_emails.email and the PRIMARY KEY on id:
\* TRUE when inserting (id, email) raises ER_DUP_ENTRY
DupEntry(id, email) == RowsByEmail(email) # {} \/ RowsById(id) # {}

\* the outcome of INSERT INTO temp_emails (id, email, domain_id, expires_at):
\* user_id NOT NULL has no default, domain_id references domains(id)
InsertOutcome(id, email, domainId) ==
  IF ownerNotNull THEN "ER_NO_DEFAULT_FOR_FIELD"
  ELSE IF DupEntry(id, email) THEN "ER_DUP_ENTRY"
  ELSE IF domainId \notin Domains THEN "ER_NO_REFERENCED_ROW"
  ELSE "ok"

\* rows removed with an address: ON DELETE CASCADE of received_emails.temp_email_id
\* and of email_attachments.email_id
MessagesOf(addrId) == {m \in received_emails : m.temp_email_id = addrId}
AttachmentsOf(msgs) == {a \in email_attachments : \E m \in msgs : a.email_id = m.id}

\* ------------------------------------------------------ POST /public/create
IdleCreate == [pc |-> "idle", bot |-> FALSE, email |-> Undefined, domainId |-> "none",
               id |-> <<"none", 0>>, expiresAt |-> 0, t0 |-> 0,
               status |-> 0, body |-> NoRow, dup |-> FALSE, missed |-> FALSE]

\* id = uuidv4(): a fresh value per request
NewId(c) == <<"new", c>>

\* a handler without the bot branch: a bot's request is served like any other
CreateStart_BotServed(c) ==
  /\ create[c].pc = "idle"
  /\ \E bot \in BOOLEAN, email \in Emails, domainId \in DomainInputs :
       create' = [create EXCEPT ![c] =
                    [@ EXCEPT !.pc = "check", !.bot = bot, !.email = email,
                              !.domainId = domainId, !.id = NewId(c), !.t0 = now,
                              !.expiresAt = now + PublicTtlDays]]
  /\ UNCHANGED <<now, ownerNotNull, serverVars, poolVars, callVars, sweep, storeVars, hookVars, authVars, deleted>>

\* the request arrives: isBot, then id and expiresAt are computed before any query
CreateStart(c) ==
  /\ create[c].pc = "idle"
  /\ \E bot \in BOOLEAN, email \in Emails, domainId \in DomainInputs :
       IF bot
       THEN create' = [create EXCEPT ![c] =
                         [@ EXCEPT !.pc = "done", !.bot = TRUE, !.status = 200,
                                   !.body = DemoRow(now), !.t0 = now]]
       ELSE create' = [create EXCEPT ![c] =
                         [@ EXCEPT !.pc = "check", !.email = email, !.domainId = domainId,
                                   !.id = NewId(c), !.t0 = now,
                                   !.expiresAt = now + PublicTtlDays]]
  /\ UNCHANGED <<now, ownerNotNull, serverVars, poolVars, callVars, sweep, storeVars, hookVars, authVars, deleted>>

\* mutant of CreateCheck: a repeated creation renews the expiry of the row it finds
CreateCheck_Touch(c) ==
  /\ create[c].pc = "check"
  /\ LET existingEmails == LiveRows(create[c].email)
         renewed == [FirstRow(existingEmails) EXCEPT !.expires_at = create[c].expiresAt] IN
       IF existingEmails # {}
       THEN /\ temp_emails' = (temp_emails \ existingEmails) \cup {renewed}
            /\ create' = [create EXCEPT ![c] =
                            [@ EXCEPT !.pc = "done", !.status = 200, !.body = renewed]]
       ELSE /\ create' = [create EXCEPT ![c] = [@ EXCEPT !.pc = "insert", !.missed = TRUE]]
            /\ UNCHANGED temp_emails
  /\ UNCHANGED <<now, ownerNotNull, serverVars, poolVars, callVars, sweep, received_emails, email_attachments, hookVars,
                 authVars, deleted>>

\* SELECT * FROM temp_emails WHERE email = ? AND expires_at > NOW()
CreateCheck(c) ==
  /\ create[c].pc = "check"
  /\ LET existingEmails == LiveRows(create[c].email) IN
       IF existingEmails # {}
       THEN create' = [create EXCEPT ![c] =
                         [@ EXCEPT !.pc = "done", !.status = 200,
                                   !.body = FirstRow(existingEmails)]]
       ELSE create' = [create EXCEPT ![c] = [@ EXCEPT !.pc = "insert", !.missed = TRUE]]
  /\ UNCHANGED <<now, ownerNotNull, serverVars, poolVars, callVars, sweep, storeVars, hookVars, authVars, deleted>>

\* INSERT INTO temp_emails (id, email, domain_id, expires_at) VALUES (?, ?, ?, ?)
CreateInsert(c) ==
  /\ create[c].pc = "insert"
  /\ LET r == create[c]
         outcome == InsertOutcome(r.id, r.email, r.domainId) IN
       CASE outcome = "ok" ->
              /\ temp_emails' = temp_emails \cup
                   {[id |-> r.id, user_id |-> NoOwner, email |-> r.email,
                     domain_id |-> r.domainId, expires_at |-> r.expiresAt,
                     created_at |-> now]}
              /\ create' = [create EXCEPT ![c] = [@ EXCEPT !.pc = "refetch"]]
         [] outcome = "ER_DUP_ENTRY" ->
              /\ create' = [create EXCEPT ![c] = [@ EXCEPT !.pc = "dupRefetch", !.dup = TRUE]]
              /\ UNCHANGED temp_emails
         [] OTHER ->
              \* not ER_DUP_ENTRY: rethrown, answered 400 by the outer catch
              /\ create' = [create EXCEPT ![c] = [@ EXCEPT !.pc = "done", !.status = 400]]
              /\ UNCHANGED temp_emails
  /\ UNCHANGED <<now, ownerNotNull, serverVars, poolVars, callVars, sweep, received_emails, email_attachments, hookVars, authVars, deleted>>

\* SELECT * FROM temp_emails WHERE id = ?; res.json(createdEmail[0])
CreateRefetch(c) ==
  /\ create[c].pc = "refetch"
  /\ create' = [create EXCEPT ![c] =
                  [@ EXCEPT !.pc = "done", !.status = 200,
                            !.body = FirstRow(RowsById(create[c].id))]]
  /\ UNCHANGED <<now, ownerNotNull, serverVars, poolVars, callVars, sweep, storeVars, hookVars, authVars, deleted>>

\* catch ER_DUP_ENTRY: SELECT * FROM temp_emails WHERE email = ?
CreateDupRefetch(c) ==
  /\ create[c].pc = "dupRefetch"
  /\ LET existingEmail == RowsByEmail(create[c].email) IN
       IF existingEmail # {}
       THEN create' = [create EXCEPT ![c] =
                         [@ EXCEPT !.pc = "done", !.status = 200,
                                   !.body = FirstRow(existingEmail)]]
       ELSE create' = [create EXCEPT ![c] = [@ EXCEPT !.pc = "done", !.status = 400]]
  /\ UNCHANGED <<now, ownerNotNull, serverVars, poolVars, callVars, sweep, storeVars, hookVars, authVars, deleted>>

\* ------------------------------------------------- strings (JavaScript)
Min(S) == CHOOSE x \in S : \A y \in S : x <= y
Max(S) == CHOOSE x \in S : \A y \in S : x >= y
\* !x for a string or undefined
Falsy(x) == x = Undefined \/ x = <<>>
\* a || b
Or(a, b) == IF Falsy(a) THEN b ELSE a
\* a.concat(b); undefined is appended as the text "undefined"
Concat(a, b) == a \o b
\* s.includes(ch)
Includes(s, ch) == \E i \in 1..Len(s) : s[i] = ch
\* s.trim()
Trim(s) ==
  LET keep == {i \in 1..Len(s) : s[i] \notin {" ", "\n"}} IN
    IF keep = {} THEN <<>> ELSE SubSeq(s, Min(keep), Max(keep))
\* s.match(/<(.+)>/): the leftmost '<' that has a '>' at least two places on,
\* up to the last '>' (the strings here hold no line break); null when none
NoMatch == <<"null">>
MatchAngle(s) ==
  LET closes == {j \in 1..Len(s) : s[j] = ">"}
      opens == {i \in 1..Len(s) : s[i] = "<" /\ \E j \in closes : j >= i + 2} IN
    IF opens = {} THEN NoMatch ELSE SubSeq(s, Min(opens) + 1, Max(closes) - 1)

\* ------------------------------------------------------ webhook signature
\* process.env.MAILGUN_WEBHOOK_SIGNING_KEY, and a key the relay does not hold
SigningKey == <<"k">>
ForgedKey == <<"x">>
\* crypto.createHmac('sha256', key).update(msg).digest('hex'): an ideal MAC,
\* one digest per (key, message)
Hmac(key, msg) == <<"hmac", key, msg>>

\* a check that looks at the key of the digest and not at what was signed
verifyWebhookSignature_AnyMessage(timestamp, token, signature) ==
  IF timestamp = Undefined THEN "throw"
  ELSE IF Len(signature) = 3 /\ signature[2] = SigningKey THEN "true"
  ELSE "false"

\* verifyWebhookSignature(timestamp, token, signature): "true", "false", or
\* "throw" (undefined.concat is a TypeError)
verifyWebhookSignature(timestamp, token, signature) ==
  IF timestamp = Undefined THEN "throw"
  ELSE IF Hmac(SigningKey, Concat(timestamp, token)) = signature THEN "true"
  ELSE "false"

\* verifyWebhookSignature(req) of the revision that reads headers too: the
\* body's signature object first, then the X-Mailgun-* headers; any throw is false
verifyWebhookSignatureReq(hdr, sig) ==
  IF sig.obj
  THEN IF verifyWebhookSignature(sig.timestamp, sig.token, sig.signature) = "true"
       THEN "true" ELSE "false"
  ELSE IF ~Falsy(hdr.timestamp) /\ ~Falsy(hdr.token) /\ ~Falsy(hdr.signature)
       THEN verifyWebhookSignature(hdr.timestamp, hdr.token, hdr.signature)
       ELSE "false"

\* the revisions of POST /email/incoming
Revs == {"part_005", "webhook_1", "part_003", "part_004", "webhook_2"}
TxRevs == {"part_004", "webhook_2"}

\* the signature gate of revision rv: what the verification returned ("none"
\* when no verification is made) and whether the handler goes on ("pass") or
\* answers 401 or 500
SignatureGate(rv, hdr, sig) ==
  CASE rv = "part_005" ->
         \* req.body.signature.timestamp throws when the object is missing
         IF ~sig.obj THEN [isValid |-> "none", gate |-> "500"]
         ELSE LET v == verifyWebhookSignature(sig.timestamp, sig.token, sig.signature) IN
                [isValid |-> v,
                 gate |-> IF v = "throw" THEN "500" ELSE IF v = "true" THEN "pass" ELSE "401"]
    [] rv = "webhook_1" ->
         IF Falsy(sig.timestamp) \/ Falsy(sig.token) \/ Falsy(sig.signature)
         THEN [isValid |-> "none", gate |-> "401"]
         ELSE LET v == verifyWebhookSignature(sig.timestamp, sig.token, sig.signature) IN
                [isValid |-> v, gate |-> IF v = "true" THEN "pass" ELSE "401"]
    [] rv = "part_003" ->
         \* isValid is logged and not looked at again
         [isValid |-> verifyWebhookSignatureReq(hdr, sig), gate |-> "pass"]
    [] OTHER -> [isValid |-> "none", gate |-> "pass"]

\* signature material as a request may carry it
NoSig == [obj |-> FALSE, timestamp |-> Undefined, token |-> Undefined, signature |-> Undefined]
SignedBy(key, ts, tok) ==
  [obj |-> TRUE, timestamp |-> ts, token |-> tok, signature |-> Hmac(key, Concat(ts, tok))]
SigInputs ==
  {NoSig,
   SignedBy(SigningKey, <<"1">>, <<"2">>),
   SignedBy(ForgedKey, <<"1">>, <<"2">>),
   [SignedBy(SigningKey, <<"1">>, <<"2">>) EXCEPT !.token = <<"3">>],
   [SignedBy(SigningKey, <<"1">>, <<"2">>) EXCEPT !.timestamp = <<"9">>],
   [SignedBy(SigningKey, <<"1">>, <<"2">>) EXCEPT !.timestamp = Undefined],
   [SignedBy(SigningKey, <<"1">>, <<"2">>) EXCEPT !.signature = Undefined]}

NotChecked == [isValid |-> "pending", gate |-> "pending"]

\* the deployed revision checks the signature of the request in authIn
CheckSignature ==
  /\ authOut = NotChecked
  /\ authOut' = SignatureGate(rev, authIn.hdr, authIn.sig)
  /\ UNCHANGED <<now, ownerNotNull, serverVars, poolVars, callVars, sweep, storeVars, create, hookVars, authIn, deleted>>

\* ------------------------------------------------------- the MIME parser
\* A raw body is a sequence of pieces of text: a line break "\n", the two
\* characters "--", the boundary text "b", plain words, "<" and ">", and whole
\* header lines (a header line of a body holds nothing after its value).
MaxSections == 2

HeaderLines == {"Content-Type: multipart/mixed; boundary=b", "Content-Type: text/html",
                "Content-Type: text/plain", "Content-Type: image/png"}
\* line.match(/^([\w-]+):\s*(.*)$/)[2] of a header line
HeaderValue(line) ==
  CASE line = "Content-Type: multipart/mixed; boundary=b" -> "multipart/mixed; boundary=b"
    [] line = "Content-Type: text/html" -> "text/html"
    [] line = "Content-Type: text/plain" -> "text/plain"
    [] line = "Content-Type: image/png" -> "image/png"
\* partHeaders.match(/Content-Type:\s*([^;\n]+)/i)[1].trim() of a header line
PartType(line) ==
  IF line = "Content-Type: multipart/mixed; boundary=b" THEN "multipart/mixed"
  ELSE HeaderValue(line)
\* contentType.match(/boundary="?([^";\s]+)"?/): the boundary, '' when none
BoundaryOf(contentType) ==
  IF contentType = "multipart/mixed; boundary=b" THEN <<"b">> ELSE <<>>

\* pat occurs in s at position i
StartsAt(s, pat, i) ==
  i + Len(pat) - 1 <= Len(s) /\ SubSeq(s, i, i + Len(pat) - 1) = pat
\* s.indexOf(pat) + 1
Find(s, pat) ==
  LET hits == {i \in 1..Len(s) : StartsAt(s, pat, i)} IN
    IF hits = {} THEN 0 ELSE Min(hits)
\* s.includes(pat)
Contains(s, pat) == Find(s, pat) # 0
\* s.split(pat)
RECURSIVE Split(_, _)
Split(s, pat) ==
  LET i == Find(s, pat) IN
    IF i = 0 THEN <<s>>
    ELSE <<SubSeq(s, 1, i - 1)>> \o Split(SubSeq(s, i + Len(pat), Len(s)), pat)
\* list.join(pat)
RECURSIVE Join(_, _)
Join(list, pat) ==
  IF list = <<>> THEN <<>>
  ELSE IF Len(list) = 1 THEN list[1]
  ELSE list[1] \o pat \o Join(Tail(list), pat)

BlankLine == <<"\n", "\n">>

\* headerLines.forEach: parsedHeaders['content-type'], the value of the last
\* header line of the block; "" when the block has none
RECURSIVE ParsedContentType(_)
ParsedContentType(lines) ==
  IF lines = <<>> THEN ""
  ELSE LET line == lines[Len(lines)] IN
         IF line # <<>> /\ line[1] \in HeaderLines
         THEN HeaderValue(line[1])
         ELSE ParsedContentType(SubSeq(lines, 1, Len(lines) - 1))

\* the first Content-Type line anywhere in partHeaders; "" when none
FirstPartType(partHeaders) ==
  LET hits == {i \in 1..Len(partHeaders) : partHeaders[i] \in HeaderLines} IN
    IF hits = {} THEN "" ELSE PartType(partHeaders[Min(hits)])

\* multipartSections.forEach(section => ...): the parts the sections push
RECURSIVE SectionParts(_)
SectionParts(sections) ==
  IF sections = <<>> THEN <<>>
  ELSE LET section == Head(sections)
           pieces == Split(Trim(section), BlankLine)
           type == FirstPartType(pieces[1]) IN
         (IF Trim(section) # <<>> /\ ~Contains(section, <<"--">>) /\ type # ""
          THEN <<[contentType |-> type, content |-> Trim(Join(Tail(pieces), BlankLine))]>>
          ELSE <<>>) \o SectionParts(Tail(sections))

\* the catch branch of parseEmailContent
Fallback(rawContent) ==
  [headers |-> "", parts |-> <<[contentType |-> "text/plain", content |-> rawContent]>>]

\* parseEmailContent(rawContent) of the revision that returns parts; headers
\* is the content-type header it parsed ("" when it parsed none)
parseEmailContent(rawContent) ==
  IF rawContent = Undefined THEN Fallback(rawContent)  \* undefined.split: TypeError, caught
  ELSE
    LET blocks == Split(rawContent, BlankLine)
        headers == Head(blocks)
        bodyParts == Tail(blocks)
        contentType == ParsedContentType(Split(headers, <<"\n">>))
        boundary == BoundaryOf(contentType) IN
      IF boundary # <<>>
      THEN [headers |-> contentType,
            parts |-> SectionParts(Split(Join(bodyParts, BlankLine), <<"--">> \o boundary))]
      ELSE [headers |-> contentType,
            parts |-> <<[contentType |-> IF contentType = "" THEN "text/plain" ELSE contentType,
                         content |-> Join(bodyParts, BlankLine)]>>]

\* part.contentType.includes('image/') || part.contentType.includes('application/')
IsAttachmentType(ct) == ct \in {"image/png", "application/pdf"}

\* parsedEmail.parts.forEach: a later part of a kind replaces an earlier one
RECURSIVE LastContent(_, _)
LastContent(parts, kind) ==
  IF parts = <<>> THEN <<>>
  ELSE LET part == parts[Len(parts)] IN
         IF part.contentType = kind THEN part.content
         ELSE LastContent(SubSeq(parts, 1, Len(parts) - 1), kind)

\* textContent.replace(/\n/g, '<br>')
BreakLines(text) == [i \in 1..Len(text) |-> IF text[i] = "\n" THEN "<br>" ELSE text[i]]

\* what the handler stores of the body: body_html, body_text and the number
\* of attachments, with the parts its parser returned
NotParsed == [headers |-> "", parts |-> <<>>, html |-> <<>>, text |-> <<>>, attachments |-> -1]

Classified(parsed) ==
  LET htmlContent == LastContent(parsed.parts, "text/html")
      textContent == LastContent(parsed.parts, "text/plain") IN
    [headers |-> parsed.headers, parts |-> parsed.parts,
     html |-> IF Falsy(htmlContent) /\ ~Falsy(textContent)
              THEN BreakLines(textContent) ELSE htmlContent,
     text |-> textContent,
     attachments |-> Cardinality({i \in 1..Len(parsed.parts) :
                                    IsAttachmentType(parsed.parts[i].contentType)})]

\* parseEmailContent(rawContent) of the revision that classifies inside the
\* parser (it returns html, text and attachments, and no parts), with what
\* its handler stores
parseEmailContentInline(rawContent) ==
  IF rawContent = Undefined
  THEN [headers |-> "", parts |-> <<>>, html |-> <<>>, text |-> rawContent, attachments |-> 0]
  ELSE
    LET blocks == Split(rawContent, BlankLine)
        bodyParts == Tail(blocks)
        contentType == ParsedContentType(Split(Head(blocks), <<"\n">>))
        boundary == BoundaryOf(contentType)
        seen == SectionParts(Split(Join(bodyParts, BlankLine), <<"--">> \o boundary)) IN
      IF boundary # <<>>
      THEN [headers |-> contentType, parts |-> <<>>,
            html |-> LastContent(seen, "text/html"),
            text |-> LastContent(seen, "text/plain"),
            attachments |-> Cardinality({i \in 1..Len(seen) :
                                           IsAttachmentType(seen[i].contentType)})]
      ELSE [headers |-> contentType, parts |-> <<>>, html |-> <<>>,
            text |-> Join(bodyParts, BlankLine), attachments |-> 0]

\* req.body.body as sent: a header block, a blank line or none, and a body
HeaderBlocks == {<<>>, <<"Content-Type: multipart/mixed; boundary=b">>,
                 <<"Content-Type: text/plain">>, <<"Content-Type: text/html">>}
Texts == {<<"x">>, <<"y">>, <<"x", "\n", "y">>, <<"<", "x", ">">>}
Preambles == {<<>>, <<"x", "\n">>}
\* what stands between two delimiter lines: a part with its type line and
\* content, a part whose content holds "--", text without a type line, nothing
Sections ==
  {<<"\n", "Content-Type: text/html", "\n", "\n", "x", "\n">>,
   <<"\n", "Content-Type: text/html", "\n", "\n", "y", "\n">>,
   <<"\n", "Content-Type: text/plain", "\n", "\n", "x", "\n">>,
   <<"\n", "Content-Type: text/plain", "\n", "\n", "y", "\n", "<", "x", ">", "\n">>,
   <<"\n", "Content-Type: image/png", "\n", "\n", "x", "\n">>,
   <<"\n", "Content-Type: text/plain", "\n", "\n", "x", "--", "y", "\n">>,
   <<"\n", "x", "\n">>,
   <<"\n">>}
SectionLists == UNION {[1..n -> Sections] : n \in 0..MaxSections}
Delimiter == <<"--", "b">>
Terminators == {<<>>, <<"--", "b", "--", "\n">>}

RECURSIVE Delimited(_)
Delimited(sections) ==
  IF sections = <<>> THEN <<>>
  ELSE Delimiter \o Head(sections) \o Delimited(Tail(sections))

Bodies ==
  {Undefined}
  \cup {h \o sep \o t : h \in HeaderBlocks, sep \in {<<>>, BlankLine}, t \in Texts \cup {<<>>}}
  \cup {h \o BlankLine \o pre \o Delimited(l) \o end :
          h \in HeaderBlocks, pre \in Preambles, l \in SectionLists, end \in Terminators}

\* the deployed revision parses mimeIn and classifies its parts
ParseBody ==
  /\ mimeOut = NotParsed
  /\ mimeOut' = IF rev = "part_004" THEN parseEmailContentInline(mimeIn)
                ELSE Classified(parseEmailContent(mimeIn))
  /\ UNCHANGED <<now, ownerNotNull, serverVars, poolVars, storeVars, create, hookVars, authVars, deleted,
                 reqIn, reqOut, mimeIn, sweep>>

\* --------------------------------------------------- POST /email/incoming
\* most webhook requests answered in one run
MaxRequests == 2

Senders == {Undefined, <<"s">>}
\* the recipient field as sent: missing, empty, a bare address, padded with
\* blanks, in display form 'N <a>', or with an unclosed '<'
RecipientInputs ==
  {Undefined, <<>>, EmailA, EmailB, <<" ", "a", " ">>, <<"N", " ", "<", "a", ">">>, <<"<", "a">>}
\* the 'event-data' envelope: absent, without a recipient, or complete
NoEvent == [present |-> FALSE, recipient |-> Undefined, sender |-> Undefined]
EventInputs ==
  {NoEvent,
   [present |-> TRUE, recipient |-> Undefined, sender |-> Undefined],
   [present |-> TRUE, recipient |-> EmailA, sender |-> <<"s">>]}
\* the content types of the parts parseEmailContent returns for the body
PartTypes == {"text/plain", "image/png", "application/pdf"}
PartLists == UNION {[1..n -> PartTypes] : n \in 0..MaxAtts}

\* the parts pushed to emailData.attachments, in order
AttachmentParts(parts) == {i \in 1..Len(parts) : IsAttachmentType(parts[i])}

\* cleanRecipient: recipient.includes('<') ? recipient.match(/<(.+)>/)[1] : recipient.trim();
\* a TypeError when the recipient is undefined or the pattern does not match
CleanRecipient(recipient) ==
  IF recipient = Undefined THEN [threw |-> TRUE, value |-> Undefined]
  ELSE IF Includes(recipient, "<")
       THEN IF MatchAngle(recipient) = NoMatch
            THEN [threw |-> TRUE, value |-> Undefined]
            ELSE [threw |-> FALSE, value |-> MatchAngle(recipient)]
       ELSE [threw |-> FALSE, value |-> Trim(recipient)]

\* The handler up to its first query, for revision rv and payload p: the
\* status it answers at once (0 when it goes on to the address lookup), the
\* recipient it looks up, the sender and the number of attachments it stores.
Proceed(recipient, sender, atts) ==
  [status |-> 0, recipient |-> recipient, sender |-> sender, atts |-> atts]
AnswerAtOnce(status) ==
  [status |-> status, recipient |-> Undefined, sender |-> Undefined, atts |-> 0]

BeforeLookup(rv, p) ==
  LET gate == SignatureGate(rv, p.hdr, p.sig).gate IN
  CASE gate = "401" -> AnswerAtOnce(401)
    [] gate = "500" -> AnswerAtOnce(500)
    [] rv \in {"part_005", "webhook_1"} ->
         Proceed(p.recipient, p.sender, p.attachments)
    [] rv = "part_003" ->
         LET recipient == IF p.event.present THEN p.event.recipient ELSE p.recipient
             sender == IF p.event.present THEN p.event.sender ELSE Or(p.sender, p.from) IN
           IF Falsy(recipient) THEN AnswerAtOnce(400) ELSE Proceed(recipient, sender, 0)
    [] rv = "part_004" ->
         LET clean == CleanRecipient(p.recipient) IN
           IF clean.threw THEN AnswerAtOnce(500)
           ELSE Proceed(clean.value, p.sender, Cardinality(AttachmentParts(p.parts)))
    [] rv = "webhook_2" ->
         LET clean == CleanRecipient(p.recipient) IN
           IF Falsy(p.recipient) THEN AnswerAtOnce(400)
           ELSE IF clean.threw THEN AnswerAtOnce(500)
           ELSE Proceed(clean.value, p.sender, Cardinality(AttachmentParts(p.parts)))

\* The payloads sent to revision rv. A field the revision never reads is left
\* absent; the signature stays in the payload of every revision.
HookSigs == {NoSig, SignedBy(SigningKey, <<"1">>, <<"2">>), SignedBy(ForgedKey, <<"1">>, <<"2">>)}
Payload(hdr, sig, event, recipient, sender, attachments, parts) ==
  [hdr |-> hdr, sig |-> sig, event |-> event, recipient |-> recipient, sender |-> sender,
   from |-> Undefined, attachments |-> attachments, parts |-> parts]
Payloads(rv) ==
  CASE rv \in {"part_005", "webhook_1"} ->
         {Payload(NoSig, sig, NoEvent, recipient, sender, n, <<>>) :
            sig \in SigInputs, recipient \in RecipientInputs, sender \in Senders,
            n \in 0..MaxAtts}
    [] rv = "part_003" ->
         {Payload(hdr, sig, event, recipient, sender, 0, <<>>) :
            hdr \in HookSigs, sig \in HookSigs, event \in EventInputs,
            recipient \in RecipientInputs, sender \in Senders}
    [] rv \in TxRevs ->
         {Payload(NoSig, sig, NoEvent, recipient, sender, 0, parts) :
            sig \in HookSigs, recipient \in RecipientInputs, sender \in Senders,
            parts \in PartLists}

\* the handler of the deployed revision runs on reqIn up to its first query
NoRequest == Payload(NoSig, NoSig, NoEvent, Undefined, Undefined, 0, <<>>)
NotRun == [status |-> -1, recipient |-> Undefined, sender |-> Undefined, atts |-> 0]
RequestInputs == UNION {Payloads(rv) : rv \in Revs}

HandleUpToLookup ==
  /\ reqOut = NotRun
  /\ reqOut' = BeforeLookup(rev, reqIn)
  /\ UNCHANGED <<now, ownerNotNull, serverVars, poolVars, storeVars, create, hookVars, authVars, deleted,
                 reqIn, mimeIn, mimeOut, sweep>>

\* ------------------------------------------------------------ the pool
\* pool.getConnection() with waitForConnections: true and queueLimit: 0
\* resolves, or fails to connect, when fewer than connectionLimit connections
\* are checked out, and waits otherwise
CanConnect == checkedOut < ConnectionLimit

\* ------------------------------------------------- start of the process
\* retries is the loop variable of initializeDatabase; attempts counts the
\* calls of pool.getConnection(), error is the attempt whose error was caught
\* last and thrown the attempt whose error initializeDatabase threw
Booting == [pc |-> "connect", retries |-> Retries, attempts |-> 0, error |-> 0, thrown |-> 0]
\* the process after initializeDatabase resolved at its first attempt: it
\* listens and no request is in progress
Serving ==
  /\ boot = [pc |-> "listening", retries |-> Retries, attempts |-> 1, error |-> 0, thrown |-> 0]
  /\ health = "idle"
  /\ register = "idle"

\* a loop that gives up one attempt early
BootCatch_GivesUpEarly(b) ==
  IF b.retries - 1 <= 1
  THEN [b EXCEPT !.retries = 0, !.error = b.attempts, !.thrown = b.attempts, !.pc = "exited"]
  ELSE [b EXCEPT !.retries = @ - 1, !.error = b.attempts, !.pc = "wait"]

\* catch (error) { retries--; if (retries === 0) throw error; await 5 s }
\* and index.js .catch: process.exit(1)
BootCatch(b) ==
  IF b.retries - 1 = 0
  THEN [b EXCEPT !.retries = 0, !.error = b.attempts, !.thrown = b.attempts, !.pc = "exited"]
  ELSE [b EXCEPT !.retries = @ - 1, !.error = b.attempts, !.pc = "wait"]

\* while (retries > 0) { try { connection = await pool.getConnection()
BootConnect ==
  /\ boot.pc = "connect"
  /\ boot.retries > 0
  /\ \/ /\ CanConnect
        /\ boot' = [boot EXCEPT !.attempts = @ + 1, !.pc = "query"]
        /\ checkedOut' = checkedOut + 1
        /\ UNCHANGED faults
     \/ /\ CanConnect
        /\ faults > 0
        /\ faults' = faults - 1
        /\ boot' = BootCatch([boot EXCEPT !.attempts = @ + 1])
        /\ UNCHANGED checkedOut
  /\ UNCHANGED <<appVars, client, health, register, limitVars>>

\* the queries on the connection (SELECT 1, SET SESSION, initializeTables),
\* then connection.release(); return pool, and index.js .then: app.listen,
\* scheduleCleanup.  A query that fails goes to the catch, where the
\* connection is not released.
BootQuery ==
  /\ boot.pc = "query"
  /\ \/ /\ boot' = [boot EXCEPT !.pc = "listening"]
        /\ checkedOut' = checkedOut - 1
        /\ UNCHANGED faults
     \/ /\ faults > 0
        /\ faults' = faults - 1
        /\ boot' = BootCatch(boot)
        /\ UNCHANGED checkedOut
  /\ UNCHANGED <<appVars, client, health, register, limitVars>>

\* await new Promise(resolve => setTimeout(resolve, 5000)); the loop goes round
BootWait ==
  /\ boot.pc = "wait"
  /\ boot' = [boot EXCEPT !.pc = "connect"]
  /\ UNCHANGED <<appVars, client, poolVars, health, register, limitVars>>

\* ------------------------------------------------------------ GET /health
\* checkDatabaseConnection: connection = await pool.getConnection(); a
\* failure is caught and the route answers 503
HealthConnect ==
  /\ boot.pc = "listening"
  /\ health = "idle"
  /\ \/ /\ CanConnect
        /\ health' = "query"
        /\ checkedOut' = checkedOut + 1
        /\ UNCHANGED faults
     \/ /\ CanConnect
        /\ faults > 0
        /\ faults' = faults - 1
        /\ UNCHANGED <<health, checkedOut>>
  /\ UNCHANGED <<appVars, client, boot, register, limitVars>>

\* await connection.query('SELECT 1'); connection.release(); return true.
\* A query that fails goes to the catch, where the connection is not released.
HealthQuery ==
  /\ health = "query"
  /\ health' = "idle"
  /\ \/ /\ checkedOut' = checkedOut - 1
        /\ UNCHANGED faults
     \/ /\ faults > 0
        /\ faults' = faults - 1
        /\ UNCHANGED checkedOut
  /\ UNCHANGED <<appVars, client, boot, register, limitVars>>

\* ------------------------------------------------------ POST /auth/register
\* a body without email or password is answered 400 at once; otherwise
\* connection = await pool.getConnection(), whose failure is answered 500
RegisterConnect ==
  /\ boot.pc = "listening"
  /\ register = "idle"
  /\ \E complete \in BOOLEAN :
       IF ~complete
       THEN UNCHANGED <<register, poolVars>>
       ELSE \/ /\ CanConnect
               /\ register' = "check"
               /\ checkedOut' = checkedOut + 1
               /\ UNCHANGED faults
            \/ /\ CanConnect
               /\ faults > 0
               /\ faults' = faults - 1
               /\ UNCHANGED <<register, checkedOut>>
  /\ UNCHANGED <<appVars, client, boot, health, limitVars>>

\* SELECT * FROM users WHERE email = ?: a registered email is answered 409;
\* every way out of the try passes through finally { connection.release() }
RegisterCheck ==
  /\ register = "check"
  /\ \/ /\ \E existing \in BOOLEAN :
             IF existing
             THEN register' = "idle" /\ checkedOut' = checkedOut - 1
             ELSE register' = "insert" /\ UNCHANGED checkedOut
        /\ UNCHANGED faults
     \/ /\ faults > 0
        /\ faults' = faults - 1
        /\ register' = "idle"
        /\ checkedOut' = checkedOut - 1
  /\ UNCHANGED <<appVars, client, boot, health, limitVars>>

\* bcrypt.hash, INSERT INTO users, res.json; finally { connection.release() }
RegisterInsert ==
  /\ register = "insert"
  /\ register' = "idle"
  /\ checkedOut' = checkedOut - 1
  /\ \/ UNCHANGED faults
     \/ faults > 0 /\ faults' = faults - 1
  /\ UNCHANGED <<appVars, client, boot, health, limitVars>>

\* ------------------------------------------------------- rate limiter
IPs == {"ip1", "ip2"}
\* rateLimit[ip] of an IP that has sent no request (undefined)
NoEntry == [count |-> 0, timestamp |-> 0]
NoVerdict == [ip |-> "none", verdict |-> "none"]
NoTraffic ==
  /\ rateLimit = [ip \in IPs |-> NoEntry]
  /\ clock = 0
  /\ answered = NoVerdict
  /\ passed = [ip \in IPs |-> 0]

\* whether a request at time t falls in the window of entry e
InWindow_Inclusive(e, t) == t - e.timestamp <= WindowMs
\* const timeDiff = now - rateLimit[ip].timestamp; if (timeDiff < 1000)
InWindow(e, t) == t - e.timestamp < WindowMs

\* app.use((req, res, next) => ...): the middleware on a request of ip
Limit(ip) ==
  /\ boot.pc = "listening"
  /\ LET e == rateLimit[ip] IN
       IF e # NoEntry /\ InWindow(e, clock)
       THEN /\ e.count < MaxCount
            /\ rateLimit' = [rateLimit EXCEPT ![ip].count = @ + 1]
            /\ IF e.count + 1 > MaxPerWindow
               THEN /\ answered' = [ip |-> ip, verdict |-> "429"]
                    /\ UNCHANGED passed
               ELSE /\ answered' = [ip |-> ip, verdict |-> "next"]
                    /\ passed' = [passed EXCEPT ![ip] = @ + 1]
       ELSE /\ rateLimit' = [rateLimit EXCEPT ![ip] = [count |-> 1, timestamp |-> clock]]
            /\ answered' = [ip |-> ip, verdict |-> "next"]
            /\ passed' = [passed EXCEPT ![ip] = 1]
  /\ UNCHANGED <<appVars, client, poolVars, boot, health, register, clock>>

\* time passes in the process
Elapse ==
  /\ clock + StepMs <= MaxClock
  /\ clock' = clock + StepMs
  /\ UNCHANGED <<appVars, client, poolVars, boot, health, register, rateLimit, answered, passed>>

NoId == <<"none", 0>>
IdleHook == [pc |-> "idle", id |-> NoId, recipient |-> Undefined, sender |-> Undefined,
             atts |-> 0, tempEmailId |-> NoId, txMsgs |-> {}, txAtts |-> {},
             written |-> 0, sigOk |-> FALSE, noLive |-> FALSE, attFailed |-> FALSE,
             wrote |-> FALSE]

\* emailId = uuidv4(), attachmentId = uuidv4(): fresh values
MsgId(k) == <<"msg", k>>
AttId(k, i) == <<"att", k, i>>

\* res.status(st): the request is over; it is logged and the next may arrive
Respond(r, st) ==
  /\ hook' = IdleHook
  /\ served' = served + 1
  /\ ingestions' = ingestions \cup
       {[id |-> r.id, status |-> st, atts |-> r.atts, recipient |-> r.recipient,
         sigOk |-> r.sigOk, noLive |-> r.noLive, attFailed |-> r.attFailed,
         wrote |-> r.wrote]}

\* a request arrives and runs up to its first query
HookStart ==
  /\ hook.pc = "idle"
  /\ served < MaxRequests
  /\ \E p \in Payloads(rev) :
       LET b == BeforeLookup(rev, p)
           r == [hook EXCEPT !.id = MsgId(served), !.recipient = b.recipient,
                             !.sender = b.sender, !.atts = b.atts,
                             !.sigOk = \/ verifyWebhookSignature(p.hdr.timestamp, p.hdr.token,
                                                                 p.hdr.signature) = "true"
                                       \/ verifyWebhookSignature(p.sig.timestamp, p.sig.token,
                                                                 p.sig.signature) = "true"] IN
         IF b.status # 0
         THEN Respond(r, b.status)
         ELSE /\ hook' = [r EXCEPT !.pc = "lookup"]
              /\ UNCHANGED <<served, ingestions>>
  /\ UNCHANGED <<now, ownerNotNull, serverVars, poolVars, callVars, sweep, storeVars, create, rev, observed, authVars, deleted>>

\* SELECT id FROM temp_emails WHERE email = ? AND expires_at > NOW()
HookLookup ==
  /\ hook.pc = "lookup"
  /\ LET tempEmails == LiveRows(hook.recipient) IN
       IF tempEmails = {}
       THEN Respond([hook EXCEPT !.noLive = TRUE], 404)
       ELSE /\ hook' = [hook EXCEPT !.tempEmailId = FirstRow(tempEmails).id,
                                    !.pc = IF rev \in TxRevs THEN "begin" ELSE "insertMsg"]
            /\ UNCHANGED <<served, ingestions>>
  /\ UNCHANGED <<now, ownerNotNull, serverVars, poolVars, callVars, sweep, storeVars, create, rev, observed, authVars, deleted>>

\* connection = await pool.getConnection(); await connection.beginTransaction():
\* both stand before the try, so a failure of either goes to the outer catch,
\* which answers 500, and a connection whose beginTransaction failed is not
\* released
HookBegin ==
  /\ hook.pc = "begin"
  /\ \/ /\ CanConnect
        /\ checkedOut' = checkedOut + 1
        /\ hook' = [hook EXCEPT !.pc = "insertMsg"]
        /\ UNCHANGED <<faults, served, ingestions>>
     \/ /\ CanConnect
        /\ faults > 0
        /\ faults' = faults - 1
        /\ checkedOut' = checkedOut + 1
        /\ Respond(hook, 500)
     \/ /\ CanConnect
        /\ faults > 0
        /\ faults' = faults - 1
        /\ Respond(hook, 500)
        /\ UNCHANGED checkedOut
  /\ UNCHANGED <<now, ownerNotNull, serverVars, callVars, sweep, storeVars, create, rev, observed,
                 authVars, deleted>>

\* INSERT INTO received_emails: from_email is NOT NULL and temp_email_id
\* references temp_emails(id)
MessageInsertFails(r) == r.sender = Undefined \/ RowsById(r.tempEmailId) = {}
MessageRow(r) == [id |-> r.id, temp_email_id |-> r.tempEmailId, from_email |-> r.sender,
                  received_at |-> now]

HookInsertMessage ==
  /\ hook.pc = "insertMsg"
  /\ IF rev \in TxRevs
     THEN /\ hook' = IF MessageInsertFails(hook)
                     THEN [hook EXCEPT !.pc = "rollback"]
                     ELSE [hook EXCEPT !.txMsgs = {MessageRow(hook)},
                                       !.pc = IF hook.atts > 0 THEN "insertAtt" ELSE "commit"]
          /\ UNCHANGED <<received_emails, served, ingestions>>
     ELSE IF MessageInsertFails(hook)
          THEN Respond(hook, 500) /\ UNCHANGED received_emails
          ELSE /\ received_emails' = received_emails \cup {MessageRow(hook)}
               /\ IF hook.atts > 0 /\ rev # "part_003"
                  THEN /\ hook' = [hook EXCEPT !.pc = "insertAtt", !.wrote = TRUE]
                       /\ UNCHANGED <<served, ingestions>>
                  ELSE Respond([hook EXCEPT !.wrote = TRUE], 200)
  /\ UNCHANGED <<now, ownerNotNull, serverVars, poolVars, callVars, sweep, temp_emails, email_attachments, create, rev, observed,
                 authVars, deleted>>

\* INSERT INTO email_attachments, one row per loop turn; the store may refuse
\* a row (a value too long for its column, a lost connection), and refuses
\* one whose message row is gone (email_id references received_emails(id))
AttachmentRow(r) == [id |-> AttId(served, r.written + 1), email_id |-> r.id]

HookInsertAttachment ==
  /\ hook.pc = "insertAtt"
  /\ \E refused \in BOOLEAN :
       LET last == hook.written + 1 = hook.atts IN
       IF rev \in TxRevs
       THEN /\ hook' = IF refused
                       THEN [hook EXCEPT !.pc = "rollback", !.attFailed = TRUE]
                       ELSE [hook EXCEPT !.txAtts = @ \cup {AttachmentRow(hook)},
                                         !.written = @ + 1,
                                         !.pc = IF last THEN "commit" ELSE "insertAtt"]
            /\ UNCHANGED <<email_attachments, served, ingestions>>
       ELSE IF refused \/ \A m \in received_emails : m.id # hook.id
            THEN Respond([hook EXCEPT !.attFailed = TRUE], 500) /\ UNCHANGED email_attachments
            ELSE /\ email_attachments' = email_attachments \cup {AttachmentRow(hook)}
                 /\ IF last
                    THEN Respond(hook, 200)
                    ELSE /\ hook' = [hook EXCEPT !.written = @ + 1]
                         /\ UNCHANGED <<served, ingestions>>
  /\ UNCHANGED <<now, ownerNotNull, serverVars, poolVars, callVars, sweep, temp_emails, received_emails, create, rev, observed,
                 authVars, deleted>>

\* a handler that answers 200 before it commits, and commits nothing
HookCommit_AnswerFirst ==
  /\ hook.pc = "commit"
  /\ checkedOut' = checkedOut - 1
  /\ Respond([hook EXCEPT !.wrote = TRUE], 200)
  /\ UNCHANGED <<now, ownerNotNull, serverVars, faults, callVars, sweep, storeVars, create, rev,
                 observed, authVars, deleted>>

\* await connection.commit(); res.status(200); finally { connection.release() }.
\* A commit that fails goes to the catch.
HookCommit ==
  /\ hook.pc = "commit"
  /\ \/ /\ received_emails' = received_emails \cup hook.txMsgs
        /\ email_attachments' = email_attachments \cup hook.txAtts
        /\ checkedOut' = checkedOut - 1
        /\ Respond([hook EXCEPT !.wrote = TRUE], 200)
        /\ UNCHANGED faults
     \/ /\ faults > 0
        /\ faults' = faults - 1
        /\ hook' = [hook EXCEPT !.pc = "rollback"]
        /\ UNCHANGED <<received_emails, email_attachments, checkedOut, served, ingestions>>
  /\ UNCHANGED <<now, ownerNotNull, serverVars, callVars, sweep, temp_emails, create, rev, observed,
                 authVars, deleted>>

\* catch { await connection.rollback(); throw error } finally { connection.release() };
\* the outer catch answers 500, with the error of the try or, when the
\* rollback fails, with the rollback's
HookRollback ==
  /\ hook.pc = "rollback"
  /\ checkedOut' = checkedOut - 1
  /\ \/ UNCHANGED faults
     \/ faults > 0 /\ faults' = faults - 1
  /\ Respond(hook, 500)
  /\ UNCHANGED <<now, ownerNotNull, serverVars, callVars, sweep, storeVars, create, rev, observed,
                 authVars, deleted>>

\* ------------------------------------------------------------ read routes
\* SELECT re.* FROM received_emails re JOIN temp_emails te ON re.temp_email_id = te.id
\* WHERE te.id = ?   (GET /:id/received)   or   WHERE te.email = ?   (GET /public/:email)
ReceivedOf_LiveOnly(addrs) ==
  {m \in received_emails : \E te \in addrs : m.temp_email_id = te.id /\ te.expires_at > now}
ReceivedOf(addrs) ==
  {m \in received_emails : \E te \in addrs : m.temp_email_id = te.id}
\* what a read returns of a message, its id, together with the number of
\* attachment rows stored for it at the time of the read
Seen(msgs) ==
  {[id |-> m.id, atts |-> Cardinality({a \in email_attachments : a.email_id = m.id}),
    by |-> client] :
     m \in msgs}

ReadReceived ==
  /\ \E te \in temp_emails :
       observed' = observed \cup Seen(ReceivedOf(RowsById(te.id)))
  /\ UNCHANGED <<now, ownerNotNull, serverVars, poolVars, callVars, sweep, storeVars, create, rev, hook, served, ingestions,
                 authVars, deleted>>

ReadPublic ==
  /\ \E email \in Emails :
       observed' = observed \cup Seen(ReceivedOf(RowsByEmail(email)))
  /\ UNCHANGED <<now, ownerNotNull, serverVars, poolVars, callVars, sweep, storeVars, create, rev, hook, served, ingestions,
                 authVars, deleted>>

\* ------------------------------------------------------------ environment
\* a day passes
Tick ==
  /\ now < MaxTime
  /\ now' = now + 1
  /\ UNCHANGED <<ownerNotNull, serverVars, poolVars, callVars, sweep, storeVars, create, hookVars, authVars, deleted>>

\* an owner deletes one of their addresses; its messages and their attachments
\* go with it (ON DELETE CASCADE)
DeleteAddress ==
  /\ \E a \in temp_emails :
       /\ a.user_id # NoOwner
       \* a message row inserted in an open transaction locks the address it references
       /\ \A m \in hook.txMsgs : m.temp_email_id # a.id
       /\ temp_emails' = temp_emails \ {a}
       /\ received_emails' = received_emails \ MessagesOf(a.id)
       /\ email_attachments' = email_attachments \ AttachmentsOf(MessagesOf(a.id))
       /\ deleted' = deleted \cup {a}
  /\ UNCHANGED <<now, ownerNotNull, serverVars, poolVars, callVars, sweep, create, hookVars, authVars>>

\* ------------------------------------------------------ retention sweep
\* a sweep that deletes the old messages and leaves their attachments
CleanupMessages_NoCascade ==
  /\ boot.pc = "listening"
  /\ sweep = "idle"
  /\ received_emails' = {m \in received_emails : ~(m.received_at < now - RetentionDays)}
  /\ sweep' = "orphans"
  /\ UNCHANGED <<now, ownerNotNull, serverVars, poolVars, callVars, temp_emails, email_attachments, create,
                 hookVars, authVars, deleted>>

\* a sweep that deletes every message, whatever its age
CleanupMessages_All ==
  /\ boot.pc = "listening"
  /\ sweep = "idle"
  /\ received_emails' = {}
  /\ email_attachments' = {}
  /\ sweep' = "orphans"
  /\ UNCHANGED <<now, ownerNotNull, serverVars, poolVars, callVars, temp_emails, create, hookVars,
                 authVars, deleted>>

\* cleanupOldEmails, first query: DELETE re FROM received_emails re WHERE
\* re.received_at < DATE_SUB(NOW(), INTERVAL 3 DAY); the attachments of the
\* deleted messages go with them (ON DELETE CASCADE)
CleanupMessages ==
  /\ boot.pc = "listening"
  /\ sweep = "idle"
  /\ \/ /\ LET old == {m \in received_emails : m.received_at < now - RetentionDays} IN
             /\ received_emails' = received_emails \ old
             /\ email_attachments' = email_attachments \ AttachmentsOf(old)
        /\ sweep' = "orphans"
        /\ UNCHANGED faults
     \* the query fails: cleanupOldEmails rethrows, the interval callback
     \* catches and logs, and the interval goes on
     \/ /\ faults > 0
        /\ faults' = faults - 1
        /\ UNCHANGED <<received_emails, email_attachments, sweep>>
  /\ UNCHANGED <<now, ownerNotNull, serverVars, checkedOut, callVars, temp_emails, create, hookVars,
                 authVars, deleted>>

\* cleanupOldEmails, second query: DELETE ea FROM email_attachments ea
\* LEFT JOIN received_emails re ON ea.email_id = re.id WHERE re.id IS NULL
CleanupOrphans ==
  /\ sweep = "orphans"
  /\ sweep' = "idle"
  /\ \/ /\ email_attachments' =
             {a \in email_attachments : \E m \in received_emails : m.id = a.email_id}
        /\ UNCHANGED faults
     \/ /\ faults > 0
        /\ faults' = faults - 1
        /\ UNCHANGED email_attachments
  /\ UNCHANGED <<now, ownerNotNull, serverVars, checkedOut, callVars, temp_emails, received_emails,
                 create, hookVars, authVars, deleted>>

\* ------------------------------------------------------------------ init
\* an address created earlier by its owner (the authenticated flow), live for one more day
OwnedRowA == [id |-> <<"old", 1>>, user_id |-> "u1", email |-> EmailA,
              domain_id |-> "d1", expires_at |-> 1, created_at |-> 0]

\* a message with one attachment that OwnedRowA received three days ago
OldMessage == [id |-> <<"msg", -1>>, temp_email_id |-> <<"old", 1>>, from_email |-> <<"s">>,
               received_at |-> -3]
OldAttachment == [id |-> <<"att", -1, 1>>, email_id |-> <<"msg", -1>>]

InitCreate ==
  /\ now = 0
  /\ ownerNotNull \in BOOLEAN
  /\ temp_emails \in {{}, {OwnedRowA}}
  /\ received_emails = {}
  /\ email_attachments = {}
  /\ create = [c \in Creates |-> IdleCreate]
  /\ rev = "webhook_2"
  /\ hook = IdleHook
  /\ served = 0
  /\ authIn = [hdr |-> NoSig, sig |-> NoSig]
  /\ authOut = NotChecked
  /\ observed = {}
  /\ deleted = {}
  /\ ingestions = {}
  /\ reqIn = NoRequest
  /\ reqOut = NotRun
  /\ mimeIn = Undefined
  /\ mimeOut = NotParsed
  /\ sweep = "idle"
  /\ client = NoOwner
  /\ faults = 0
  /\ checkedOut = 0
  /\ Serving
  /\ NoTraffic

NextCreate ==
  \/ \E c \in Creates : CreateStart(c)
  \/ \E c \in Creates : CreateCheck(c)
  \/ \E c \in Creates : CreateInsert(c)
  \/ \E c \in Creates : CreateRefetch(c)
  \/ \E c \in Creates : CreateDupRefetch(c)
  \/ Tick
  \/ DeleteAddress

SpecCreate == InitCreate /\ [][NextCreate]_vars

\* the webhook, the read routes, the clock and the owner of the address
InitHook ==
  /\ now = 0
  /\ ownerNotNull = TRUE
  /\ temp_emails = {OwnedRowA}
  /\ received_emails = {}
  /\ email_attachments = {}
  /\ create = [c \in Creates |-> IdleCreate]
  /\ rev \in Revs
  /\ hook = IdleHook
  /\ served = 0
  /\ authIn = [hdr |-> NoSig, sig |-> NoSig]
  /\ authOut = NotChecked
  /\ observed = {}
  /\ deleted = {}
  /\ ingestions = {}
  /\ reqIn = NoRequest
  /\ reqOut = NotRun
  /\ mimeIn = Undefined
  /\ mimeOut = NotParsed
  /\ sweep = "idle"
  /\ client = NoOwner
  /\ faults = 0
  /\ checkedOut = 0
  /\ Serving
  /\ NoTraffic

NextHook ==
  \/ HookStart
  \/ HookLookup
  \/ HookBegin
  \/ HookInsertMessage
  \/ HookInsertAttachment
  \/ HookCommit
  \/ HookRollback
  \/ ReadReceived
  \/ ReadPublic
  \/ Tick
  \/ DeleteAddress

SpecHook == InitHook /\ [][NextHook]_vars

\* the webhook, the owner of the address and the retention sweep over a store
\* that holds an old message
InitStore ==
  /\ now = 0
  /\ ownerNotNull = TRUE
  /\ temp_emails = {OwnedRowA}
  /\ received_emails = {OldMessage}
  /\ email_attachments = {OldAttachment}
  /\ create = [c \in Creates |-> IdleCreate]
  /\ rev \in Revs
  /\ hook = IdleHook
  /\ served = 0
  /\ authIn = [hdr |-> NoSig, sig |-> NoSig]
  /\ authOut = NotChecked
  /\ observed = {}
  /\ deleted = {}
  /\ ingestions = {}
  /\ reqIn = NoRequest
  /\ reqOut = NotRun
  /\ mimeIn = Undefined
  /\ mimeOut = NotParsed
  /\ sweep = "idle"
  /\ client = NoOwner
  /\ faults = 0
  /\ checkedOut = 0
  /\ Serving
  /\ NoTraffic

NextStore ==
  \/ HookStart
  \/ HookLookup
  \/ HookBegin
  \/ HookInsertMessage
  \/ HookInsertAttachment
  \/ HookCommit
  \/ HookRollback
  \/ Tick
  \/ DeleteAddress
  \/ CleanupMessages
  \/ CleanupOrphans

SpecStore == InitStore /\ [][NextStore]_vars

\* the signature check alone, over every request's signature material
InitSig ==
  /\ now = 0
  /\ ownerNotNull = TRUE
  /\ temp_emails = {OwnedRowA}
  /\ received_emails = {}
  /\ email_attachments = {}
  /\ create = [c \in Creates |-> IdleCreate]
  /\ rev \in Revs
  /\ hook = IdleHook
  /\ served = 0
  /\ authIn \in [hdr : SigInputs, sig : SigInputs]
  /\ authOut = NotChecked
  /\ observed = {}
  /\ deleted = {}
  /\ ingestions = {}
  /\ reqIn = NoRequest
  /\ reqOut = NotRun
  /\ mimeIn = Undefined
  /\ mimeOut = NotParsed
  /\ sweep = "idle"
  /\ client = NoOwner
  /\ faults = 0
  /\ checkedOut = 0
  /\ Serving
  /\ NoTraffic

NextSig == CheckSignature

SpecSig == InitSig /\ [][NextSig]_vars

\* the handler up to its first query, over every payload
InitReq ==
  /\ now = 0
  /\ ownerNotNull = TRUE
  /\ temp_emails = {OwnedRowA}
  /\ received_emails = {}
  /\ email_attachments = {}
  /\ create = [c \in Creates |-> IdleCreate]
  /\ rev \in Revs
  /\ hook = IdleHook
  /\ served = 0
  /\ authIn = [hdr |-> NoSig, sig |-> NoSig]
  /\ authOut = NotChecked
  /\ observed = {}
  /\ deleted = {}
  /\ ingestions = {}
  /\ reqIn \in RequestInputs
  /\ reqOut = NotRun
  /\ mimeIn = Undefined
  /\ mimeOut = NotParsed
  /\ sweep = "idle"
  /\ client = NoOwner
  /\ faults = 0
  /\ checkedOut = 0
  /\ Serving
  /\ NoTraffic

NextReq == HandleUpToLookup

SpecReq == InitReq /\ [][NextReq]_vars

\* the parser and the classification of its parts, over every raw body
InitMime ==
  /\ now = 0
  /\ ownerNotNull = TRUE
  /\ temp_emails = {OwnedRowA}
  /\ received_emails = {}
  /\ email_attachments = {}
  /\ create = [c \in Creates |-> IdleCreate]
  /\ rev \in TxRevs
  /\ hook = IdleHook
  /\ served = 0
  /\ authIn = [hdr |-> NoSig, sig |-> NoSig]
  /\ authOut = NotChecked
  /\ observed = {}
  /\ deleted = {}
  /\ ingestions = {}
  /\ reqIn = NoRequest
  /\ reqOut = NotRun
  /\ mimeIn \in Bodies
  /\ mimeOut = NotParsed
  /\ sweep = "idle"
  /\ client = NoOwner
  /\ faults = 0
  /\ checkedOut = 0
  /\ Serving
  /\ NoTraffic

NextMime == ParseBody

SpecMime == InitMime /\ [][NextMime]_vars

\* ================================================================ claims
\* ------------------------------------------------------------------- C1
\* C1: for every finished ingestion one of whose attachment inserts failed
\* after its message insert succeeded, the request answered 500 and storage
\* holds no Message row of that message id and no Attachment row referencing it.
C1_IngestionAtomicity ==
  \A g \in ingestions :
    g.attFailed =>
      /\ g.status = 500
      /\ \A m \in received_emails : m.id # g.id
      /\ \A a \in email_attachments : a.email_id # g.id

\* the same statement for the revisions that write inside a transaction
C1_Transactional == rev \in TxRevs => C1_IngestionAtomicity

\* ------------------------------------------------------------------- C2
\* C2: whatever a reader (by address id or by address email) was returned,
\* the message belongs to no ingestion that ended in failure, and the
\* attachment rows stored for it when it was read were all the attachments
\* its ingestion writes.
C2_ReadersSeeWholeIngestions ==
  \A o \in observed : \A g \in ingestions :
    g.id = o.id => (g.status = 200 /\ o.atts = g.atts)

\* the same statement for the revisions that write inside a transaction
C2_Transactional == rev \in TxRevs => C2_ReadersSeeWholeIngestions

\* ------------------------------------------------------------------- C3
\* two finished creation requests for the same email and an existing domain,
\* nothing for that email deleted and every row of it still live
C3_Scope(c1, c2) ==
  /\ c1 # c2
  /\ create[c1].pc = "done" /\ create[c2].pc = "done"
  /\ create[c1].email # Undefined /\ create[c1].email = create[c2].email
  /\ create[c1].domainId \in Domains /\ create[c2].domainId \in Domains
  /\ \A d \in deleted : d.email # create[c1].email
  /\ \A r \in temp_emails : r.email = create[c1].email => r.expires_at > now

\* C3: any two creation requests for the same email, in any interleaving of
\* their check, insert and re-fetch steps while the first result is live,
\* both answer the same Address id and storage holds exactly one row for
\* that email.
C3_IdempotentCreation ==
  \A c1, c2 \in Creates :
    C3_Scope(c1, c2) =>
      /\ create[c1].status = 200 /\ create[c2].status = 200
      /\ create[c1].body.id = create[c2].body.id
      /\ create[c1].body \in temp_emails
      /\ Cardinality({r \in temp_emails : r.email = create[c1].email}) = 1

\* the same statement where temp_emails.user_id accepts NULL
C3_NullableOwner == ~ownerNotNull => C3_IdempotentCreation

\* ------------------------------------------------------------------- C4
\* C4: a request whose insert raised ER_DUP_ENTRY is never answered with an
\* error: it is answered 200 with the existing Address of that email.
C4_DupNeverSurfaced ==
  \A c \in Creates :
    (create[c].pc = "done" /\ create[c].dup) =>
      (create[c].status = 200 /\ create[c].body.email = create[c].email)

\* ------------------------------------------------------------------- C5
C5_Live(r) == r.expires_at > now

\* the insert step of request c, made for an existing domain on a table whose
\* owner column accepts NULL, when no live row of its email is stored
C5_InsertWithoutLiveRow(c) ==
  /\ create[c].pc = "insert" /\ create'[c].pc # "insert"
  /\ ~ownerNotNull /\ create[c].domainId \in Domains
  /\ \A r \in temp_emails : r.email = create[c].email => ~C5_Live(r)

C6_Answers(c) ==
  create[c].pc # "done" /\ create'[c].pc = "done" /\ create'[c].email # Undefined

\* C6: a creation whose insert is attempted while its email has no live row
\* (an expired row included) stores a new row expiring TTL after the call and
\* the request answers that new row; no answer carries an expired Address.
C6_FreshLiveAddress ==
  [][\A c \in Creates :
       /\ (~ownerNotNull /\ C5_InsertWithoutLiveRow(c)) =>
             \E r \in temp_emails' :
               r.id = create[c].id /\ r.expires_at = create[c].t0 + PublicTtlDays
       /\ (C6_Answers(c) /\ create'[c].status = 200) =>
             /\ create'[c].body.expires_at > now
             /\ create[c].missed /\ ~create[c].dup => create'[c].body.id = create[c].id
    ]_vars

\* ------------------------------------------------------------------- C7
C7_Live(r) == r.expires_at > now

\* the existence check of request c runs while a live row of its email is stored
C7_CheckFindsLive(c) ==
  /\ create[c].pc = "check" /\ create'[c].pc # "check"
  /\ \E r \in temp_emails : r.email = create[c].email /\ C7_Live(r)

\* C7: creation for an email that has a live Address leaves the store as it
\* is (no insert, no field of the existing row modified, expiry not
\* extended) and answers that unchanged row; the request never inserts.
C7_ExistingReturnedUnchanged ==
  /\ [][\A c \in Creates :
          C7_CheckFindsLive(c) =>
            /\ temp_emails' = temp_emails
            /\ create'[c].pc = "done" /\ create'[c].status = 200
            /\ create'[c].body \in temp_emails
            /\ create'[c].body.email = create[c].email
            /\ C7_Live(create'[c].body)]_vars
  /\ [](\A c \in Creates :
          (create[c].pc = "done" /\ ~create[c].missed) =>
             \A r \in temp_emails : r.id # NewId(c))

\* a finished request answered the live row that was already stored
C7_Witness ==
  \E c \in Creates :
    /\ create[c].pc = "done" /\ create[c].status = 200 /\ ~create[c].missed
    /\ create[c].body \in temp_emails /\ C7_Live(create[c].body)

\* ------------------------------------------------------------------- C8
\* C8: every finished webhook request whose signature is absent or does not
\* verify was answered 401 and wrote nothing; a Message row exists only for
\* requests whose signature verified.
C8_UnsignedRejected ==
  \A g \in ingestions :
    ~g.sigOk =>
      /\ g.status = 401
      /\ ~g.wrote
      /\ \A m \in received_emails : m.id # g.id

\* ------------------------------------------------------------------- C9
\* the location carries signature material
C9_Carries(m) == m # NoSig
C9_Verifies(m) == verifyWebhookSignature(m.timestamp, m.token, m.signature) = "true"

\* C9: once the signature of a request is checked, the result is the one
\* computed from the header fields when the headers carry signature material,
\* and the one computed from the body's signature object when only the body
\* carries it.
C9_HeadersPreferred ==
  (authOut # NotChecked /\ (C9_Carries(authIn.hdr) \/ C9_Carries(authIn.sig))) =>
    LET used == IF C9_Carries(authIn.hdr) THEN authIn.hdr ELSE authIn.sig IN
      (authOut.isValid = "true") <=> C9_Verifies(used)

\* ------------------------------------------------------------------ C10
C10_Live(r) == r.expires_at > now

\* the request is at its address lookup and no live row has its recipient
C10_NoLiveAddress ==
  /\ hook.pc = "lookup"
  /\ \A r \in temp_emails : r.email = hook.recipient => ~C10_Live(r)

\* C10: a webhook request whose address lookup runs while no live Address has
\* its recipient (never issued, or expires_at <= now) is answered 404 by that
\* step, which leaves the store as it is; no Message row and no Attachment
\* row of a request answered 404 is ever stored.
C10_NoLiveAddressIs404 ==
  /\ [][(C10_NoLiveAddress /\ hook' # hook) =>
          /\ UNCHANGED storeVars
          /\ \E g \in ingestions' \ ingestions : g.id = hook.id /\ g.status = 404]_vars
  /\ [](\A g \in ingestions :
          g.status = 404 =>
            /\ \A m \in received_emails : m.id # g.id
            /\ \A a \in email_attachments : a.email_id # g.id)

\* a request for an address that is stored but expired was answered 404
C10_Witness ==
  \E g \in ingestions : \E r \in temp_emails :
    g.status = 404 /\ r.email = g.recipient /\ ~C10_Live(r)

\* ------------------------------------------------------------------ C11
\* C11: whenever a Message row becomes stored (the insert of the revisions
\* that write directly, the commit of the transactional ones), the Address it
\* references is stored and live (expires_at > now) at that instant, also
\* when the address expired or was deleted after the recipient lookup.
C11_LiveAtCommit ==
  [][\A m \in received_emails' \ received_emails :
       \E r \in temp_emails' : r.id = m.temp_email_id /\ r.expires_at > now']_vars

\* ------------------------------------------------------------------ C12
\* no supported payload shape of p carries a recipient
C12_NoRecipient(p) ==
  /\ Falsy(p.recipient)
  /\ p.event.present => Falsy(p.event.recipient)

\* C12: a webhook request from which no recipient can be determined (and
\* which the signature gate lets through) is answered 400 before any query
\* is made; it is never answered 500.
C12_NoRecipientIs400 ==
  (/\ reqOut # NotRun
   /\ C12_NoRecipient(reqIn)
   /\ SignatureGate(rev, reqIn.hdr, reqIn.sig).gate = "pass") => reqOut.status = 400

\* ------------------------------------------------------------------ C13
\* the address a recipient string stands for: the bracketed part of a display
\* form, else the string without its surrounding blanks
C13_Address(s) == IF MatchAngle(s) # NoMatch THEN MatchAngle(s) ELSE Trim(s)

\* C13: every non-empty recipient string of a flat payload (one the signature
\* gate lets through) reaches the address lookup, never a 500, and is looked
\* up as the address it stands for.
C13_RecipientResolved ==
  (/\ reqOut # NotRun
   /\ ~reqIn.event.present
   /\ ~Falsy(reqIn.recipient)
   /\ SignatureGate(rev, reqIn.hdr, reqIn.sig).gate = "pass") =>
     (reqOut.status = 0 /\ reqOut.recipient = C13_Address(reqIn.recipient))

\* ------------------------------------------------------------------ C14
\* the first payload shape, in the order event-data then flat fields, that
\* carries a non-empty recipient
C14_FirstShape(p) ==
  IF p.event.present /\ ~Falsy(p.event.recipient)
  THEN [found |-> TRUE, recipient |-> p.event.recipient, sender |-> p.event.sender]
  ELSE [found |-> ~Falsy(p.recipient), recipient |-> p.recipient, sender |-> p.sender]

\* C14: recipient and sender are taken from the first shape that carries a
\* non-empty recipient: a payload (let through by the signature gate) whose
\* first such shape names a plain address goes on to the lookup with that
\* shape's recipient and sender, also when an event-data envelope without a
\* recipient comes first.
C14_FirstShapeWins ==
  (/\ reqOut # NotRun
   /\ C14_FirstShape(reqIn).found
   /\ C14_FirstShape(reqIn).recipient \in Emails
   /\ SignatureGate(rev, reqIn.hdr, reqIn.sig).gate = "pass") =>
     /\ reqOut.status = 0
     /\ reqOut.recipient = C14_FirstShape(reqIn).recipient
     /\ reqOut.sender = C14_FirstShape(reqIn).sender

\* ------------------------------------------------------------------ C15
\* a raw body that is not a string, has no blank line after its header
\* block, or declares a boundary that occurs nowhere in it
C15_Malformed(raw) ==
  \/ raw = Undefined
  \/ ~Contains(raw, BlankLine)
  \/ /\ Contains(raw, <<"Content-Type: multipart/mixed; boundary=b">>)
     /\ ~Contains(raw, <<"--", "b">>)

\* C15: the parser returns a result for every input; its parts list is never
\* empty, and for a malformed input the result is the single-part fallback:
\* no headers and one text/plain part holding the raw input.
C15_FallbackOnMalformed ==
  (mimeOut # NotParsed /\ rev = "webhook_2") =>
    /\ mimeOut.parts # <<>>
    /\ C15_Malformed(mimeIn) =>
         /\ mimeOut.headers = ""
         /\ mimeOut.parts = <<[contentType |-> "text/plain", content |-> mimeIn]>>

\* ------------------------------------------------------------------ C16
\* the sections of a multipart body: what stands between its delimiters
C16_Sections(raw) ==
  Split(Join(Tail(Split(raw, BlankLine)), BlankLine), <<"--", "b">>)
\* a section that is not empty and is not what follows the terminal marker
C16_Counts(section) == Trim(section) # <<>> /\ Trim(section) # <<"--">>

\* C16: for a multipart body the parser returns exactly one part per section
\* that is non-empty and is not the terminal marker, whatever the section holds.
C16_OnePartPerSection ==
  (/\ mimeOut # NotParsed
   /\ rev = "webhook_2"
   /\ mimeOut.headers = "multipart/mixed; boundary=b") =>
     Len(mimeOut.parts) =
       Cardinality({i \in 1..Len(C16_Sections(mimeIn)) : C16_Counts(C16_Sections(mimeIn)[i])})

\* ------------------------------------------------------------------ C17
C17_Has(parts, kind) == \E i \in 1..Len(parts) : parts[i].contentType = kind
C17_First(parts, kind) ==
  parts[Min({i \in 1..Len(parts) : parts[i].contentType = kind})].content

\* C17: the HTML body the handler keeps is the content of the first text/html
\* part of the parser's list and the text body that of the first text/plain
\* part; a later part of the same type does not replace it.
C17_FirstMatchWins ==
  (mimeOut # NotParsed /\ rev = "webhook_2") =>
    /\ C17_Has(mimeOut.parts, "text/html") =>
         mimeOut.html = C17_First(mimeOut.parts, "text/html")
    /\ C17_Has(mimeOut.parts, "text/plain") =>
         mimeOut.text = C17_First(mimeOut.parts, "text/plain")

\* ------------------------------------------------------------------ C18
\* C18: when the body has no HTML part and has a text part, the HTML body
\* stored for the message holds no '<' and no '>' of the text: each is escaped.
C18_SynthesizedHtmlEscaped ==
  (/\ mimeOut # NotParsed
   /\ rev = "webhook_2"
   /\ ~C17_Has(mimeOut.parts, "text/html")
   /\ C17_Has(mimeOut.parts, "text/plain")
   /\ mimeIn # Undefined) =>
     \A i \in 1..Len(mimeOut.html) : mimeOut.html[i] \notin {"<", ">"}

\* ------------------------------------------------------------------ C19
\* a signature that verifies, and what it becomes when one byte of the
\* timestamp, of the token or of the secret is replaced
C19_Signed == SignedBy(SigningKey, <<"1">>, <<"2">>)
C19_OneByteOff ==
  {[C19_Signed EXCEPT !.timestamp = <<"9">>],
   [C19_Signed EXCEPT !.token = <<"3">>],
   SignedBy(ForgedKey, <<"1">>, <<"2">>)}
\* the revisions whose gate calls verifyWebhookSignature(timestamp, token, signature)
C19_Returned ==
  /\ authOut # NotChecked
  /\ rev \in {"part_005", "webhook_1"}
  /\ authOut.isValid \in {"true", "false"}

\* C19: verifyWebhookSignature returns true exactly when the signature is the
\* HMAC of timestamp followed by token under the signing key; a verifying
\* signature with one byte of the timestamp, the token or the secret replaced
\* is refused.
C19_VerifyIffHmac ==
  C19_Returned =>
    /\ (authOut.isValid = "true") <=>
         (authIn.sig.signature =
            <<"hmac", SigningKey, authIn.sig.timestamp \o authIn.sig.token>>)
    /\ authIn.sig = C19_Signed => authOut.isValid = "true"
    /\ authIn.sig \in C19_OneByteOff => authOut.isValid = "false"

\* a signature whose timestamp was changed in one byte was refused
C19_Witness ==
  C19_Returned /\ authIn.sig = [C19_Signed EXCEPT !.timestamp = <<"9">>]
               /\ authOut.isValid = "false"

\* ------------------------------------------------------------------ C20
\* C20: in every state each Message row references a stored Address row and
\* each Attachment row references a stored Message row; a step that deletes
\* an Address leaves none of its Messages, and a step that deletes a Message
\* (the owner's deletion, its cascade or the retention sweep) leaves none of
\* its Attachments.
C20_ReferentialIntegrity ==
  /\ [](/\ \A m \in received_emails : \E r \in temp_emails : r.id = m.temp_email_id
        /\ \A a \in email_attachments : \E m \in received_emails : m.id = a.email_id)
  /\ [][/\ \A r \in temp_emails \ temp_emails' :
             \A m \in received_emails' : m.temp_email_id # r.id
        /\ \A m \in received_emails \ received_emails' :
             \A a \in email_attachments' : a.email_id # m.id]_vars

\* the retention sweep has just deleted a message that had an attachment
C20_Witness ==
  /\ sweep = "orphans"
  /\ OldMessage \notin received_emails
  /\ OwnedRowA \in temp_emails
  /\ OldAttachment \notin email_attachments

\* the read route over a store of two owned addresses, one of them expired,
\* each holding a message, with the retention sweep and owners' deletions
ExpiredRowB == [id |-> <<"old", 2>>, user_id |-> "u2", email |-> EmailB,
                domain_id |-> "d1", expires_at |-> 0, created_at |-> -2]
RecentMessage == [id |-> <<"msg", -2>>, temp_email_id |-> <<"old", 2>>, from_email |-> <<"s">>,
                  received_at |-> -1]
Clients == {NoOwner, "u1", "u2"}

InitRead ==
  /\ now = 0
  /\ ownerNotNull = TRUE
  /\ temp_emails = {OwnedRowA, ExpiredRowB}
  /\ received_emails = {OldMessage, RecentMessage}
  /\ email_attachments = {OldAttachment}
  /\ create = [c \in Creates |-> IdleCreate]
  /\ rev = "webhook_2"
  /\ hook = IdleHook
  /\ served = 0
  /\ authIn = [hdr |-> NoSig, sig |-> NoSig]
  /\ authOut = NotChecked
  /\ observed = {}
  /\ deleted = {}
  /\ ingestions = {}
  /\ reqIn = NoRequest
  /\ reqOut = NotRun
  /\ mimeIn = Undefined
  /\ mimeOut = NotParsed
  /\ sweep = "idle"
  /\ client \in Clients
  /\ faults = 0
  /\ checkedOut = 0
  /\ Serving
  /\ NoTraffic

NextRead ==
  \/ ReadReceived
  \/ Tick
  \/ DeleteAddress
  \/ CleanupMessages
  \/ CleanupOrphans

SpecRead == InitRead /\ [][NextRead]_vars

\* the process from its start: initializeDatabase, then the health check
\* and the registration, with calls to the database that may fail
InitServer ==
  /\ now = 0
  /\ ownerNotNull = TRUE
  /\ temp_emails = {OwnedRowA}
  /\ received_emails = {}
  /\ email_attachments = {}
  /\ create = [c \in Creates |-> IdleCreate]
  /\ rev = "webhook_2"
  /\ hook = IdleHook
  /\ served = 0
  /\ authIn = [hdr |-> NoSig, sig |-> NoSig]
  /\ authOut = NotChecked
  /\ observed = {}
  /\ deleted = {}
  /\ ingestions = {}
  /\ reqIn = NoRequest
  /\ reqOut = NotRun
  /\ mimeIn = Undefined
  /\ mimeOut = NotParsed
  /\ sweep = "idle"
  /\ client = NoOwner
  /\ faults = MaxFaults
  /\ checkedOut = 0
  /\ boot = Booting
  /\ health = "idle"
  /\ register = "idle"
  /\ NoTraffic

NextServer ==
  \/ BootConnect
  \/ BootQuery
  \/ BootWait
  \/ HealthConnect
  \/ HealthQuery
  \/ RegisterConnect
  \/ RegisterCheck
  \/ RegisterInsert

SpecServer == InitServer /\ [][NextServer]_vars

\* the rate limiter alone, under requests of two IPs
InitLimit ==
  /\ now = 0
  /\ ownerNotNull = TRUE
  /\ temp_emails = {}
  /\ received_emails = {}
  /\ email_attachments = {}
  /\ create = [c \in Creates |-> IdleCreate]
  /\ rev = "webhook_2"
  /\ hook = IdleHook
  /\ served = 0
  /\ authIn = [hdr |-> NoSig, sig |-> NoSig]
  /\ authOut = NotChecked
  /\ observed = {}
  /\ deleted = {}
  /\ ingestions = {}
  /\ reqIn = NoRequest
  /\ reqOut = NotRun
  /\ mimeIn = Undefined
  /\ mimeOut = NotParsed
  /\ sweep = "idle"
  /\ client = NoOwner
  /\ faults = 0
  /\ checkedOut = 0
  /\ Serving
  /\ NoTraffic

NextLimit ==
  \/ \E ip \in IPs : Limit(ip)
  \/ Elapse

SpecLimit == InitLimit /\ [][NextLimit]_vars

\* the scheduled sweep with nothing else writing to the store, over two
\* addresses and three messages of different ages, with queries that may fail
NewMessage == [id |-> <<"msg", -3>>, temp_email_id |-> <<"old", 1>>, from_email |-> <<"s">>,
               received_at |-> 0]
NewAttachment == [id |-> <<"att", -3, 1>>, email_id |-> <<"msg", -3>>]

InitSweep ==
  /\ now = 0
  /\ ownerNotNull = TRUE
  /\ temp_emails = {OwnedRowA, ExpiredRowB}
  /\ received_emails = {OldMessage, RecentMessage, NewMessage}
  /\ email_attachments = {OldAttachment, NewAttachment}
  /\ create = [c \in Creates |-> IdleCreate]
  /\ rev = "webhook_2"
  /\ hook = IdleHook
  /\ served = 0
  /\ authIn = [hdr |-> NoSig, sig |-> NoSig]
  /\ authOut = NotChecked
  /\ observed = {}
  /\ deleted = {}
  /\ ingestions = {}
  /\ reqIn = NoRequest
  /\ reqOut = NotRun
  /\ mimeIn = Undefined
  /\ mimeOut = NotParsed
  /\ sweep = "idle"
  /\ client = NoOwner
  /\ faults = MaxFaults
  /\ checkedOut = 0
  /\ Serving
  /\ NoTraffic

NextSweep ==
  \/ CleanupMessages
  \/ CleanupOrphans
  \/ Tick
  \/ ReadReceived
  \/ ReadPublic

SpecSweep == InitSweep /\ [][NextSweep]_vars

\* the webhook and the health check share the pool, and calls to the
\* database may fail
InitPool ==
  /\ now = 0
  /\ ownerNotNull = TRUE
  /\ temp_emails = {OwnedRowA}
  /\ received_emails = {}
  /\ email_attachments = {}
  /\ create = [c \in Creates |-> IdleCreate]
  /\ rev = "webhook_2"
  /\ hook = IdleHook
  /\ served = 0
  /\ authIn = [hdr |-> NoSig, sig |-> NoSig]
  /\ authOut = NotChecked
  /\ observed = {}
  /\ deleted = {}
  /\ ingestions = {}
  /\ reqIn = NoRequest
  /\ reqOut = NotRun
  /\ mimeIn = Undefined
  /\ mimeOut = NotParsed
  /\ sweep = "idle"
  /\ client = NoOwner
  /\ faults = ConnectionLimit
  /\ checkedOut = 0
  /\ Serving
  /\ NoTraffic

NextPool ==
  \/ HookStart
  \/ HookLookup
  \/ HookBegin
  \/ HookInsertMessage
  \/ HookInsertAttachment
  \/ HookCommit
  \/ HookRollback
  \/ HealthConnect
  \/ HealthQuery

SpecPool == InitPool /\ [][NextPool]_vars

\* ------------------------------------------------------------------ C21
\* C21: a creation request classified as a bot's is answered at once, with
\* status 200 and the placeholder address, by a step that leaves the store as
\* it is; the request takes no later step (it makes no query).
C21_BotGetsPlaceholder ==
  /\ [][\A c \in Creates :
          (create[c].pc = "idle" /\ create'[c].bot) =>
            /\ create'[c].pc = "done"
            /\ create'[c].status = 200
            /\ create'[c].body = DemoRow(now)
            /\ UNCHANGED storeVars]_vars
  /\ [](\A c \in Creates : create[c].bot => create[c].pc \in {"idle", "done"})

\* a bot was answered the placeholder while the store holds an address
C21_Witness ==
  \E c \in Creates :
    /\ create[c].bot /\ create[c].pc = "done" /\ create[c].status = 200
    /\ create[c].body.id = <<"demo-id", 0>>
    /\ temp_emails # {}

\* ------------------------------------------------------------------ C23
\* C23: the insert of a public creation request for an email that has no row
\* and for an existing domain succeeds: it stores the Address with no owner.
C23_AnonymousInsertSucceeds ==
  [][\A c \in Creates :
       (/\ create[c].pc = "insert" /\ create'[c].pc # "insert"
        /\ \A r \in temp_emails : r.email # create[c].email
        /\ create[c].domainId \in Domains) =>
          /\ create'[c].pc = "refetch"
          /\ \E r \in temp_emails' : r.id = create[c].id /\ r.user_id = NoOwner]_vars

\* ------------------------------------------------------------------ C22
\* C22: GET /:id/received returns the messages of an address to nobody but
\* its signed-in owner: whatever a read returns belongs to an address whose
\* owner is the client that asked.
C22_OnlyOwnerReads ==
  [][\A o \in observed' \ observed :
       /\ o.by # NoOwner
       /\ \E m \in received_emails, te \in temp_emails :
            m.id = o.id /\ te.id = m.temp_email_id /\ te.user_id = o.by]_vars

\* ------------------------------------------------------------------ C24
\* C24: the messages of an address that has passed its expiry are still what
\* both read queries return for it; the passing of time alone changes no
\* row; and a message leaves the store only with its address, deleted by its
\* owner, or by the first query of the retention sweep, being older than the
\* retention.
C24_ExpiryKeepsMessages ==
  /\ [](\A te \in temp_emails :
          ~(te.expires_at > now) =>
            /\ ReceivedOf(RowsById(te.id)) = MessagesOf(te.id)
            /\ MessagesOf(te.id) \subseteq ReceivedOf(RowsByEmail(te.email)))
  /\ [][now' # now => UNCHANGED storeVars]_vars
  /\ [][\A m \in received_emails \ received_emails' :
          \/ \E a \in deleted' \ deleted : m.temp_email_id = a.id
          \/ /\ sweep = "idle" /\ sweep' = "orphans"
             /\ m.received_at < now - RetentionDays]_vars

\* both addresses are past their expiry, both messages are stored, and the
\* message of the address that was expired from the start has been read
C24_Witness ==
  /\ now >= 1
  /\ {OwnedRowA, ExpiredRowB} \subseteq temp_emails
  /\ {OldMessage, RecentMessage} \subseteq received_emails
  /\ \E o \in observed : o.id = RecentMessage.id

\* ------------------------------------------------------------------ C25
\* C25: the step that answers 200 to a webhook request is the commit of its
\* transaction: after it the store holds exactly one message with the
\* request's id, from the payload's sender and for the address the lookup
\* resolved, and one attachment row per attachment of the request.
C25_AnsweredAfterCommit ==
  [][(\E g \in ingestions' \ ingestions : g.status = 200) =>
       /\ rev \in TxRevs => /\ hook.pc = "commit"
                            /\ hook.txMsgs \subseteq received_emails'
                            /\ hook.txAtts \subseteq email_attachments'
       /\ Cardinality({m \in received_emails' : m.id = hook.id}) = 1
       /\ \A m \in received_emails' :
            m.id = hook.id => /\ m.from_email = hook.sender
                              /\ m.temp_email_id = hook.tempEmailId
                              /\ \E te \in temp_emails : te.id = m.temp_email_id
       /\ Cardinality({a \in email_attachments' : a.email_id = hook.id}) = hook.atts]_vars

\* a request with two attachments was answered 200 after a call to the
\* database had failed
C25_Witness ==
  /\ faults < ConnectionLimit
  /\ \E g \in ingestions :
       /\ g.status = 200 /\ g.atts = 2
       /\ Cardinality({a \in email_attachments : a.email_id = g.id}) = 2

\* ------------------------------------------------------------------ C26
\* the connections held by the handlers in progress
C26_Held ==
  (IF rev \in TxRevs /\ hook.pc \in {"insertMsg", "insertAtt", "commit", "rollback"} THEN 1 ELSE 0)
  + (IF health = "query" THEN 1 ELSE 0)
  + (IF register \in {"check", "insert"} THEN 1 ELSE 0)
  + (IF boot.pc = "query" THEN 1 ELSE 0)

\* C26: every connection checked out of the pool is held by a handler in
\* progress, so that the count returns to zero when none is, whichever call
\* failed.
C26_EveryConnectionReleased == checkedOut = C26_Held

\* ------------------------------------------------------------------ C27
\* C27: every webhook request is answered exactly once, with a status among
\* 200, 400, 401, 404 and 500, and none is left without an answer: no request
\* waits for a connection that no handler is there to release.
C27_ExactlyOneResponse ==
  /\ Cardinality(ingestions) = served
  /\ \A g \in ingestions : g.status \in {200, 400, 401, 404, 500}
  /\ hook.pc # "idle" => \A g \in ingestions : g.id # hook.id
  /\ ~(hook.pc = "begin" /\ ~CanConnect /\ C26_Held = 0)

\* ------------------------------------------------------------------ C28
\* C28: initializeDatabase calls getConnection at most 5 times; it returns at
\* its first attempt that succeeds, every attempt before having failed; a
\* failed attempt other than the fifth is followed by the wait and the wait by
\* the next attempt; and after the fifth failure it throws the error of that
\* attempt, on which the process exits.
C28_FiveAttempts ==
  /\ [](boot.attempts <= Retries)
  /\ [](boot.pc = "listening" => boot.error = boot.attempts - 1 /\ boot.thrown = 0)
  /\ [](boot.pc = "exited" =>
          boot.attempts = Retries /\ boot.error = Retries /\ boot.thrown = boot.error)
  /\ [][boot'.error # boot.error =>
          \/ (boot'.pc = "wait" /\ boot'.attempts < Retries)
          \/ (boot'.pc = "exited" /\ boot'.attempts = Retries)]_vars
  /\ [][boot'.attempts # boot.attempts =>
          boot.pc = "connect" /\ boot.error = boot.attempts]_vars
  /\ [][boot.pc \in {"listening", "exited"} => boot' = boot]_vars

\* five attempts failed and the process is gone
C28_Witness == boot.pc = "exited" /\ boot.attempts = Retries /\ faults = MaxFaults - Retries

\* ------------------------------------------------------------------ C29
\* C29: a request of an IP that has no entry, or that arrives 1000 ms or more
\* after the timestamp of its entry, starts a window with count 1 at the
\* current time and is passed on; any other request adds one to the count,
\* and is passed on unless 10 requests of the window were, in which case it
\* is answered 429; so no window passes more than 10 requests.  A request
\* changes the entry of no other IP.
C29_TenPerWindow ==
  /\ [](\A ip \in IPs : passed[ip] <= MaxPerWindow)
  /\ [][\A ip \in IPs :
          rateLimit'[ip] # rateLimit[ip] =>
            /\ answered'.ip = ip
            /\ \A other \in IPs \ {ip} :
                 rateLimit'[other] = rateLimit[other] /\ passed'[other] = passed[other]
            /\ IF rateLimit[ip].count = 0 \/ clock - rateLimit[ip].timestamp >= WindowMs
               THEN /\ rateLimit'[ip] = [count |-> 1, timestamp |-> clock]
                    /\ answered'.verdict = "next"
                    /\ passed'[ip] = 1
               ELSE /\ rateLimit'[ip] = [count |-> rateLimit[ip].count + 1,
                                         timestamp |-> rateLimit[ip].timestamp]
                    /\ answered'.verdict = IF passed[ip] = MaxPerWindow THEN "429" ELSE "next"
                    /\ passed'[ip] = IF passed[ip] = MaxPerWindow THEN passed[ip]
                                     ELSE passed[ip] + 1]_vars

\* an IP has just been answered 429, having had 10 requests passed in its
\* window, while the other IP is in a window that started 1000 ms or more
\* after the first request
C29_Witness ==
  \E ip \in IPs, other \in IPs :
    /\ ip # other
    /\ answered = [ip |-> ip, verdict |-> "429"]
    /\ passed[ip] = MaxPerWindow
    /\ rateLimit[ip].count > MaxPerWindow
    /\ rateLimit[other].count >= 1 /\ rateLimit[other].timestamp >= WindowMs

\* ------------------------------------------------------------------ C30
\* C30: with nothing else writing to the store, the first query of a sweep
\* leaves no message older than 3 days and leaves every other message, the
\* attachments of those messages and the address rows as they were; the
\* second query, which completes the sweep, leaves no attachment without its
\* message and changes nothing else; a query that fails changes no row and
\* leaves the sweep idle, ready for the next run.
C30_SweepFrame ==
  /\ [][sweep = "idle" /\ sweep' = "orphans" =>
          /\ \A m \in received_emails' : ~(m.received_at < now - RetentionDays)
          /\ received_emails' = {m \in received_emails : ~(m.received_at < now - RetentionDays)}
          /\ email_attachments' =
               {a \in email_attachments : \E m \in received_emails' : m.id = a.email_id}
          /\ temp_emails' = temp_emails]_vars
  /\ [][sweep = "orphans" /\ sweep' = "idle" /\ faults' = faults =>
          /\ \A a \in email_attachments' : \E m \in received_emails' : m.id = a.email_id
          /\ {a \in email_attachments : \E m \in received_emails : m.id = a.email_id}
               \subseteq email_attachments'
          /\ received_emails' = received_emails
          /\ temp_emails' = temp_emails]_vars
  /\ [][faults' # faults => sweep' = "idle" /\ UNCHANGED storeVars]_vars
  /\ [](sweep \in {"idle", "orphans"})

\* queries of the sweep have failed, and a sweep has completed that deleted
\* the old message with its attachment and kept the newer ones and both addresses
C30_Witness ==
  /\ faults < MaxFaults
  /\ sweep = "idle"
  /\ received_emails = {RecentMessage, NewMessage}
  /\ email_attachments = {NewAttachment}
  /\ temp_emails = {OwnedRowA, ExpiredRowB}

====
